---- MODULE Spec2Model ----
(***************************************************************************)
(* Model of scanner.ipynb: order_points, four_point_transform,             *)
(* scan_document and the __main__ cell.                                    *)
(*                                                                         *)
(* Images are records [w, h, data, sw, sh, sdata]: their size, what their  *)
(* pixels are ("raw" file pixels, "resized", "edges", "warp", "corrupt",   *)
(* "bin") and the size and pixels of the image they were computed from.    *)
(*                                                                         *)
(* Coordinates scaled by ratio = H / 500.0 are kept exact as integer       *)
(* numerators over the denominator of the reduced fraction H/500           *)
(* (ratio.den): a point <<x, y>> of the model stands for                   *)
(* (x / ratio.den, y / ratio.den).  Image heights are multiples of 250,    *)
(* for which the floating-point arithmetic of the notebook is exact.       *)
(***************************************************************************)
EXTENDS Integers, Sequences, FiniteSets

VARIABLES
    pc,         \* position in the __main__ cell / scan_document
    disk,       \* the image file named by input_image_path
    orig,       \* scan_document: orig
    image,      \* scan_document: image
    ratio,      \* scan_document: ratio, as the fraction [num, den]
    edged,      \* scan_document: edged
    found,      \* what cv2.findContours returned, in its order
    cnts,       \* scan_document: cnts (sorted, truncated)
    i,          \* number of candidates the for loop has taken from cnts
    screenCnt,  \* scan_document: screenCnt
    pts,        \* four_point_transform: pts
    rect,       \* four_point_transform: rect
    maxWidth,   \* four_point_transform: maxWidth
    maxHeight,  \* four_point_transform: maxHeight
    warped,     \* four_point_transform / scan_document: warped
    T,          \* scan_document: T
    ret,        \* the value scan_document returned
    exc,        \* the exception that ended the cell, if any
    gray,       \* binarizer input row (single-channel pixels)
    bin1,       \* the binarizer's output for gray
    bin2        \* the binarizer's output for bin1

vars == <<pc, disk, orig, image, ratio, edged, found, cnts, i, screenCnt, pts,
          rect, maxWidth, maxHeight, warped, T, ret, exc, gray, bin1, bin2>>


\* ------------------------------------------------------------------ bounds
MaxHeightUnits == 3
MaxContours == 6
MaxCoord == 3
RowLen == 7

\* ------------------------------------------------------- program constants
TargetHeight == 500
TopN == 5
QuadVertices == 4
BlockSize == 11
ThreshC == 2
MaxVal == 255

\* ------------------------------------------------------------ arithmetic
Max(a, b) == IF a >= b THEN a ELSE b

Abs(a) == IF a >= 0 THEN a ELSE -a

RECURSIVE Gcd(_, _)
Gcd(a, b) == IF b = 0 THEN a ELSE Gcd(b, a % b)

RECURSIVE SqrtSearch(_, _, _)
SqrtSearch(n, lo, hi) ==
    IF lo >= hi THEN lo
    ELSE LET mid == (lo + hi + 1) \div 2
         IN  IF mid * mid <= n THEN SqrtSearch(n, mid, hi)
             ELSE SqrtSearch(n, lo, mid - 1)

\* floor(sqrt(n))
ISqrt(n) == SqrtSearch(n, 0, 8192)

\* twice the signed area of the triangle p, q, r
Cross(p, q, r) ==
    (q[1] - p[1]) * (r[2] - p[2]) - (q[2] - p[2]) * (r[1] - p[1])

\* ----------------------------------------------------------------- images
Img(w, h, data, src) ==
    [w |-> w, h |-> h, data |-> data, sw |-> src.w, sh |-> src.h, sdata |-> src.data]

\* Python's None, for a name that holds an image, ratio, an array of points
\* or the value scan_document returned
NoImage == [w |-> 0, h |-> 0, data |-> "None", sw |-> 0, sh |-> 0, sdata |-> "None"]

NoRatio == [num |-> 0, den |-> 0]

NoPoints == <<>>

NoneRet == <<>>

Heights == {250 * k : k \in 1..MaxHeightUnits}

Widths == {1, 400}

Files == {Img(w, h, "raw", NoImage) : w \in Widths, h \in Heights}

\* ratio = image.shape[0] / 500.0
Ratio(h) ==
    LET g == Gcd(h, TargetHeight)
    IN  [num |-> h \div g, den |-> TargetHeight \div g]

\* the width rounded to the nearest integer instead of truncated
NewWidth_Rounded(w, r) == (2 * w * r.den + r.num) \div (2 * r.num)

\* int(image.shape[1] / ratio)
NewWidth(w, r) == (w * r.den) \div r.num

\* --------------------------------------------------------------- contours
\* A contour c is known to the notebook only through cv2.contourArea(c) and
\* cv2.approxPolyDP(c, 0.02 * cv2.arcLength(c, True), True): the record
\* carries both, area in pixels and approx as the simplified vertex list.
Contour(area, approx) == [area |-> area, approx |-> approx]

InImage(p, nw) == p[1] \in 0..(nw - 1) /\ p[2] \in 0..(TargetHeight - 1)

Polygon(s, nw) ==
    /\ \A k \in DOMAIN s : InImage(s[k], nw)
    /\ \A j, k \in DOMAIN s : j # k => s[j] # s[k]

Next1(s, k) == (k % Len(s)) + 1

Prev1(s, k) == ((k + Len(s) - 2) % Len(s)) + 1

Seg(p, q) == ISqrt((p[1] - q[1]) * (p[1] - q[1]) + (p[2] - q[2]) * (p[2] - q[2]))

RECURSIVE Perimeter(_, _)
\* cv2.arcLength(c, True) of the closed polygon s, rounded up
Perimeter(s, k) ==
    IF k > Len(s) THEN 0
    ELSE Seg(s[k], s[Next1(s, k)]) + 1 + Perimeter(s, k + 1)

\* s is something cv2.approxPolyDP(c, 0.02 * peri, True) can return: every
\* vertex lies farther than 2% of the perimeter from the line through its
\* two neighbours, so the simplification keeps it
Simplified(s) ==
    \A k \in DOMAIN s :
        LET a == s[Prev1(s, k)]
            b == s[Next1(s, k)]
        IN  50 * Abs(Cross(a, b, s[k])) > Perimeter(s, 1) * (Seg(a, b) + 1)

\* The contours an edge map of width nw may hold: a pentagon, the frame of
\* a page that fills the picture, a diamond (a page turned by 45 degrees)
\* and a speck of one pixel, the last three simplifying to 4 vertices.
ContourLib(nw) ==
    LET m == (nw - 1) \div 2
        cands ==
            { Contour(9, << <<0, 150>>, <<m, 0>>, <<2 * m, 150>>,
                            <<2 * m, 499>>, <<0, 499>> >>),
              Contour(4, << <<0, 0>>, <<0, 499>>, <<nw - 1, 499>>,
                            <<nw - 1, 0>> >>),
              Contour(4, << <<m, 50>>, <<2 * m, 250>>, <<m, 450>>,
                            <<0, 250>> >>),
              Contour(1, << <<0, 0>>, <<0, 1>>, <<1, 1>>, <<1, 0>> >>) }
    IN  {c \in cands : Polygon(c.approx, nw) /\ Simplified(c.approx)}

\* cv2.contourArea, the sort key
contourArea(c) == c.area

\* one step of the stable sort: c goes behind every contour whose area is
\* not smaller (reverse=True keeps the order of equal keys)
Insert(s, c) ==
    LET k == Cardinality({j \in 1..Len(s) : contourArea(s[j]) >= contourArea(c)})
    IN  SubSeq(s, 1, k) \o <<c>> \o SubSeq(s, k + 1, Len(s))

\* the contours left in the order cv2.findContours gave them
SortedByArea_Unsorted(s) == s

RECURSIVE SortedByArea(_)
\* sorted(cnts, key=cv2.contourArea, reverse=True)
SortedByArea(s) ==
    IF s = <<>> THEN <<>>
    ELSE Insert(SortedByArea(SubSeq(s, 1, Len(s) - 1)), s[Len(s)])

\* [:5]
TopFive(s) == SubSeq(s, 1, IF Len(s) < TopN THEN Len(s) ELSE TopN)

\* ----------------------------------------------------------- order_points
\* np.argmin: the first index holding the minimum
ArgMin(f) ==
    CHOOSE k \in DOMAIN f :
        /\ \A j \in DOMAIN f : f[k] <= f[j]
        /\ \A j \in DOMAIN f : j < k => f[j] > f[k]

\* np.argmax: the first index holding the maximum
ArgMax(f) ==
    CHOOSE k \in DOMAIN f :
        /\ \A j \in DOMAIN f : f[k] >= f[j]
        /\ \A j \in DOMAIN f : j < k => f[j] < f[k]

\* the sum taken over the wrong axis: the first column alone
SumXY_FirstColumn(p) == [k \in DOMAIN p |-> p[k][1]]

\* pts.sum(axis=1)
SumXY(p) == [k \in DOMAIN p |-> p[k][1] + p[k][2]]

\* the difference taken the other way round, x - y
DiffXY_FirstMinusSecond(p) == [k \in DOMAIN p |-> p[k][1] - p[k][2]]

\* np.diff(pts, axis=1): second column minus first column, y - x
DiffXY(p) == [k \in DOMAIN p |-> p[k][2] - p[k][1]]

\* rect[1] and rect[3] filled from the sums instead of the differences
order_points_SumTwice(p) ==
    << p[ArgMin(SumXY(p))], p[ArgMin(SumXY(p))],
       p[ArgMax(SumXY(p))], p[ArgMax(SumXY(p))] >>

order_points(p) ==
    << p[ArgMin(SumXY(p))], p[ArgMin(DiffXY(p))],
       p[ArgMax(SumXY(p))], p[ArgMax(DiffXY(p))] >>

\* --------------------------------------------------- four_point_transform
\* the distance rounded to the nearest integer instead of truncated
IntDist_Rounded(p, q, den) ==
    (ISqrt(4 * ((p[1] - q[1]) * (p[1] - q[1]) + (p[2] - q[2]) * (p[2] - q[2]))) + den)
        \div (2 * den)

\* int(np.sqrt((p[0] - q[0]) ** 2 + (p[1] - q[1]) ** 2)), for points held
\* as numerators over den
IntDist(p, q, den) ==
    ISqrt((p[1] - q[1]) * (p[1] - q[1]) + (p[2] - q[2]) * (p[2] - q[2])) \div den

\* rect = (tl, tr, br, bl)
MaxWidthOf(r, den) == Max(IntDist(r[3], r[4], den), IntDist(r[2], r[1], den))

MaxHeightOf(r, den) == Max(IntDist(r[2], r[3], den), IntDist(r[1], r[4], den))

\* cv2.getPerspectiveTransform yields an invertible matrix exactly when no
\* three of the source corners and no three of the destination corners
\* (0,0), (mw-1,0), (mw-1,mh-1), (0,mh-1) are collinear
Invertible(r, mw, mh) ==
    /\ mw >= 2 /\ mh >= 2
    /\ \A j, k, l \in 1..4 : (j < k /\ k < l) => Cross(r[j], r[k], r[l]) # 0

\* screenCnt.reshape(4, 2) * ratio
ScaleByRatio(s, r) == [k \in DOMAIN s |-> <<s[k][1] * r.num, s[k][2] * r.num>>]

\* the resized working copy handed to the warp instead of orig
WarpSource_WorkingCopy == image

\* the image four_point_transform is handed at line 138
WarpSource == orig

\* -------------------------------------------------------------- binarizer
\* cv2.adaptiveThreshold(src, 255, ADAPTIVE_THRESH_GAUSSIAN_C, THRESH_BINARY,
\* 11, 2) on an image of one row: the 11x11 Gaussian window (sigma 2.0 for a
\* block of 11, borders replicated) weighs the row by the 11 coefficients
\* below, which are the kernel in units of 1/256.
Kernel == <<2, 7, 17, 31, 45, 52, 45, 31, 17, 7, 2>>

Half == (BlockSize - 1) \div 2

\* BORDER_REPLICATE: an index off the row reads the nearest pixel of the row
Clamp(k, n) == IF k < 1 THEN 1 ELSE IF k > n THEN n ELSE k

RECURSIVE WeightedSum(_, _, _)
WeightedSum(row, k, d) ==
    IF d > Half THEN 0
    ELSE Kernel[d + Half + 1] * row[Clamp(k + d, Len(row))]
         + WeightedSum(row, k, d + 1)

\* the Gaussian-weighted neighbourhood mean, rounded to a pixel value
LocalMean(row, k) == (WeightedSum(row, k, -Half) + 128) \div 256

\* THRESH_BINARY_INV: 0 where src > mean - C, else maxValue
ThresholdPixel_Inverted(v, mean) == IF v > mean - ThreshC THEN 0 ELSE MaxVal

\* THRESH_BINARY: maxValue where src > mean - C, else 0
ThresholdPixel(v, mean) == IF v > mean - ThreshC THEN MaxVal ELSE 0

adaptiveThreshold(row) ==
    [k \in DOMAIN row |-> ThresholdPixel(row[k], LocalMean(row, k))]

\* ------------------------------------------------- scan_document, __main__
Idle ==
    /\ orig = NoImage /\ image = NoImage /\ ratio = NoRatio /\ edged = NoImage
    /\ found = <<>> /\ cnts = <<>> /\ i = 0 /\ screenCnt = NoPoints
    /\ pts = NoPoints /\ rect = NoPoints /\ maxWidth = 0 /\ maxHeight = 0
    /\ warped = NoImage /\ T = NoImage /\ ret = NoneRet /\ exc = "None"

NoRow == gray = <<>> /\ bin1 = <<>> /\ bin2 = <<>>

\* the __main__ cell is about to call scan_document on a readable image file
Init ==
    /\ pc = "main"
    /\ disk \in Files
    /\ Idle
    /\ NoRow

\* lines 108-110: image = cv2.imread(...); orig = image.copy(); ratio = ...
Load ==
    /\ pc = "main"
    /\ pc' = "resize"
    /\ image' = disk
    /\ orig' = disk
    /\ ratio' = Ratio(disk.h)
    /\ UNCHANGED <<disk, edged, found, cnts, i, screenCnt, pts, rect, maxWidth,
                   maxHeight, warped, T, ret, exc, gray, bin1, bin2>>

\* line 111: image = cv2.resize(image, (int(image.shape[1] / ratio), 500));
\* cv2.resize raises cv2.error for a destination width of 0
Resize ==
    /\ pc = "resize"
    /\ LET nw == NewWidth(image.w, ratio)
       IN  IF nw >= 1
           THEN /\ image' = Img(nw, TargetHeight, "resized", image)
                /\ pc' = "edges"
                /\ exc' = exc
           ELSE /\ image' = image
                /\ pc' = "crashed"
                /\ exc' = "cv2.error"
    /\ UNCHANGED <<disk, orig, ratio, edged, found, cnts, i, screenCnt, pts,
                   rect, maxWidth, maxHeight, warped, T, ret, gray, bin1, bin2>>

\* lines 113-119: grayscale, blur, Canny, dilate, erode of the working copy
Edges ==
    /\ pc = "edges"
    /\ pc' = "contours"
    /\ edged' = Img(image.w, image.h, "edges", image)
    /\ UNCHANGED <<disk, orig, image, ratio, found, cnts, i, screenCnt, pts,
                   rect, maxWidth, maxHeight, warped, T, ret, exc, gray, bin1,
                   bin2>>

\* lines 122-123: cnts = sorted(findContours(edged), key=contourArea,
\* reverse=True)[:5]; what the edge map holds is the input's business
FindContours ==
    /\ pc = "contours"
    /\ \E n \in 0..MaxContours :
         \E f \in [1..n -> ContourLib(edged.w)] :
            /\ found' = f
            /\ cnts' = TopFive(SortedByArea(f))
    /\ i' = 0
    /\ screenCnt' = NoPoints
    /\ pc' = "loop"
    /\ UNCHANGED <<disk, orig, image, ratio, edged, pts, rect, maxWidth,
                   maxHeight, warped, T, ret, exc, gray, bin1, bin2>>

\* lines 126-132: one pass of the for loop over cnts
LoopStep ==
    /\ pc = "loop"
    /\ i < Len(cnts)
    /\ i' = i + 1
    /\ IF Len(cnts[i + 1].approx) = QuadVertices
       THEN screenCnt' = cnts[i + 1].approx /\ pc' = "after_loop"
       ELSE screenCnt' = screenCnt /\ pc' = pc
    /\ UNCHANGED <<disk, orig, image, ratio, edged, found, cnts, pts, rect,
                   maxWidth, maxHeight, warped, T, ret, exc, gray, bin1, bin2>>

\* the for loop runs out of candidates
LoopEnd ==
    /\ pc = "loop"
    /\ i = Len(cnts)
    /\ pc' = "after_loop"
    /\ UNCHANGED <<disk, orig, image, ratio, edged, found, cnts, i, screenCnt,
                   pts, rect, maxWidth, maxHeight, warped, T, ret, exc, gray,
                   bin1, bin2>>

\* lines 134-136: print the message and return (None)
NoDocument ==
    /\ pc = "after_loop"
    /\ screenCnt = NoPoints
    /\ ret' = NoneRet
    /\ pc' = "returned"
    /\ UNCHANGED <<disk, orig, image, ratio, edged, found, cnts, i, screenCnt,
                   pts, rect, maxWidth, maxHeight, warped, T, exc, gray, bin1,
                   bin2>>

\* line 138: four_point_transform(orig, screenCnt.reshape(4, 2) * ratio)
Transform ==
    /\ pc = "after_loop"
    /\ screenCnt # NoPoints
    /\ pts' = ScaleByRatio(screenCnt, ratio)
    /\ pc' = "fpt_order"
    /\ UNCHANGED <<disk, orig, image, ratio, edged, found, cnts, i, screenCnt,
                   rect, maxWidth, maxHeight, warped, T, ret, exc, gray, bin1,
                   bin2>>

\* lines 67-68: rect = order_points(pts)
FptOrder ==
    /\ pc = "fpt_order"
    /\ rect' = order_points(pts)
    /\ pc' = "fpt_size"
    /\ UNCHANGED <<disk, orig, image, ratio, edged, found, cnts, i, screenCnt,
                   pts, maxWidth, maxHeight, warped, T, ret, exc, gray, bin1,
                   bin2>>

\* lines 70-82: maxWidth, maxHeight and the destination rectangle
FptSize ==
    /\ pc = "fpt_size"
    /\ maxWidth' = MaxWidthOf(rect, ratio.den)
    /\ maxHeight' = MaxHeightOf(rect, ratio.den)
    /\ pc' = "warp"
    /\ UNCHANGED <<disk, orig, image, ratio, edged, found, cnts, i, screenCnt,
                   pts, rect, warped, T, ret, exc, gray, bin1, bin2>>

\* lines 84-87 with a destination of at least 1x1: the warp yields a
\* maxWidth x maxHeight image, garbage when the homography is singular
Warp ==
    /\ pc = "warp"
    /\ maxWidth >= 1 /\ maxHeight >= 1
    /\ warped' = Img(maxWidth, maxHeight,
                     IF Invertible(rect, maxWidth, maxHeight)
                     THEN "warp" ELSE "corrupt",
                     WarpSource)
    /\ pc' = "threshold"
    /\ UNCHANGED <<disk, orig, image, ratio, edged, found, cnts, i, screenCnt,
                   pts, rect, maxWidth, maxHeight, T, ret, exc, gray, bin1,
                   bin2>>

\* lines 84-87 with an empty destination size: cv2.warpPerspective falls back
\* to the size of its source and fills it from a singular matrix
WarpEmptyImage ==
    /\ pc = "warp"
    /\ (maxWidth = 0 \/ maxHeight = 0)
    /\ warped' = Img(WarpSource.w, WarpSource.h, "corrupt", WarpSource)
    /\ pc' = "threshold"
    /\ UNCHANGED <<disk, orig, image, ratio, edged, found, cnts, i, screenCnt,
                   pts, rect, maxWidth, maxHeight, T, ret, exc, gray, bin1,
                   bin2>>

\* lines 84-87 with an empty destination size, on a build of OpenCV that
\* rejects it: cv2.error leaves scan_document, nothing catches it
WarpEmptyRaise ==
    /\ pc = "warp"
    /\ (maxWidth = 0 \/ maxHeight = 0)
    /\ exc' = "cv2.error"
    /\ pc' = "crashed"
    /\ UNCHANGED <<disk, orig, image, ratio, edged, found, cnts, i, screenCnt,
                   pts, rect, maxWidth, maxHeight, warped, T, ret, gray, bin1,
                   bin2>>

\* lines 139-140: grayscale and adaptive threshold of the warp
Threshold ==
    /\ pc = "threshold"
    /\ T' = Img(warped.w, warped.h, "bin", warped)
    /\ pc' = "return"
    /\ UNCHANGED <<disk, orig, image, ratio, edged, found, cnts, i, screenCnt,
                   pts, rect, maxWidth, maxHeight, warped, ret, exc, gray,
                   bin1, bin2>>

\* line 141: return image, T
Return ==
    /\ pc = "return"
    /\ ret' = <<image, T>>
    /\ pc' = "returned"
    /\ UNCHANGED <<disk, orig, image, ratio, edged, found, cnts, i, screenCnt,
                   pts, rect, maxWidth, maxHeight, warped, T, exc, gray, bin1,
                   bin2>>

\* line 161: orig_resized, scanned_image = scan_document(...); unpacking
\* None raises TypeError
MainUnpack ==
    /\ pc = "returned"
    /\ IF ret = NoneRet
       THEN exc' = "TypeError" /\ pc' = "crashed"
       ELSE exc' = exc /\ pc' = "show"
    /\ UNCHANGED <<disk, orig, image, ratio, edged, found, cnts, i, screenCnt,
                   pts, rect, maxWidth, maxHeight, warped, T, ret, gray, bin1,
                   bin2>>

\* lines 163-176: scanned_image is not None, both images are shown
MainShow ==
    /\ pc = "show"
    /\ ret[2] # NoImage
    /\ pc' = "done"
    /\ UNCHANGED <<disk, orig, image, ratio, edged, found, cnts, i, screenCnt,
                   pts, rect, maxWidth, maxHeight, warped, T, ret, exc, gray,
                   bin1, bin2>>

Next ==
    \/ Load
    \/ Resize
    \/ Edges
    \/ FindContours
    \/ LoopStep
    \/ LoopEnd
    \/ NoDocument
    \/ Transform
    \/ FptOrder
    \/ FptSize
    \/ Warp
    \/ WarpEmptyImage
    \/ WarpEmptyRaise
    \/ Threshold
    \/ Return
    \/ MainUnpack
    \/ MainShow

Spec == Init /\ [][Next]_vars

\* ------------------------------------------- four_point_transform on its own
\* The corners handed to four_point_transform, whole pixels of a small grid
Grid == (0..MaxCoord) \X (0..MaxCoord)

GridImage == Img(MaxCoord + 1, MaxCoord + 1, "raw", NoImage)

InitTransform ==
    /\ pc = "fpt_order"
    /\ disk = GridImage
    /\ orig = GridImage
    /\ ratio = [num |-> 1, den |-> 1]
    /\ pts \in [1..QuadVertices -> Grid]
    /\ image = NoImage /\ edged = NoImage
    /\ found = <<>> /\ cnts = <<>> /\ i = 0 /\ screenCnt = NoPoints
    /\ rect = NoPoints /\ maxWidth = 0 /\ maxHeight = 0
    /\ warped = NoImage /\ T = NoImage /\ ret = NoneRet /\ exc = "None"
    /\ NoRow

NextTransform ==
    \/ FptOrder
    \/ FptSize
    \/ Warp
    \/ WarpEmptyImage
    \/ WarpEmptyRaise

SpecTransform == InitTransform /\ [][NextTransform]_vars

\* ------------------------------------------------------ binarizer on its own
Levels == {0, 64, 255}

InitBinarize ==
    /\ pc = "bin_in"
    /\ disk = NoImage
    /\ Idle
    /\ gray \in [1..RowLen -> Levels]
    /\ bin1 = <<>> /\ bin2 = <<>>

\* line 140 applied to a grayscale row
Binarize ==
    /\ pc = "bin_in"
    /\ bin1' = adaptiveThreshold(gray)
    /\ pc' = "bin_once"
    /\ UNCHANGED <<disk, orig, image, ratio, edged, found, cnts, i, screenCnt,
                   pts, rect, maxWidth, maxHeight, warped, T, ret, exc, gray,
                   bin2>>

\* line 140 applied again, to its own output
Rebinarize ==
    /\ pc = "bin_once"
    /\ bin2' = adaptiveThreshold(bin1)
    /\ pc' = "bin_twice"
    /\ UNCHANGED <<disk, orig, image, ratio, edged, found, cnts, i, screenCnt,
                   pts, rect, maxWidth, maxHeight, warped, T, ret, exc, gray,
                   bin1>>

NextBinarize ==
    \/ Binarize
    \/ Rebinarize

SpecBinarize == InitBinarize /\ [][NextBinarize]_vars

\* ================================================================= claims
\* ---- helpers of the statements below
\* the 1-based rank of found[k] by descending area, equal areas in the order
\* cv2.findContours gave them
Rank(k) ==
    1 + Cardinality({j \in 1..Len(found) :
                        \/ found[j].area > found[k].area
                        \/ (found[j].area = found[k].area /\ j < k)})

\* the contours among the 5 largest that simplify to exactly 4 vertices
TopQuads ==
    {k \in 1..Len(found) : Rank(k) <= TopN /\ Len(found[k].approx) = QuadVertices}

\* the for loop of scan_document has just been left
LoopLeft == pc = "after_loop"

\* scan_document has ended: it returned or an exception left it
ScanEnded == pc \in {"returned", "show", "done", "crashed"}

Count(s, q) == Cardinality({k \in DOMAIN s : s[k] = q})

Range(s) == {s[k] : k \in DOMAIN s}

IsPermutation(r, p) ==
    /\ Len(r) = Len(p)
    /\ \A q \in Range(r) \cup Range(p) : Count(r, q) = Count(p, q)

Succ4(k) == (k % QuadVertices) + 1

\* p, walked in its own order, is a strictly convex quadrilateral
ConvexQuad(p) ==
    \/ \A k \in 1..QuadVertices : Cross(p[k], p[Succ4(k)], p[Succ4(Succ4(k))]) > 0
    \/ \A k \in 1..QuadVertices : Cross(p[k], p[Succ4(k)], p[Succ4(Succ4(k))]) < 0

\* the 4 points are the corners of an axis-aligned rectangle of positive
\* width and height, in any order
AxisRectangle(p) ==
    /\ Cardinality(Range(p)) = QuadVertices
    /\ Cardinality({q[1] : q \in Range(p)}) = 2
    /\ Cardinality({q[2] : q \in Range(p)}) = 2

XminusY(q) == q[1] - q[2]

XplusY(q) == q[1] + q[2]

SqDist(p, q) == (p[1] - q[1]) * (p[1] - q[1]) + (p[2] - q[2]) * (p[2] - q[2])

\* n = floor(sqrt(d) / den)
IsTruncatedRoot(n, d, den) ==
    /\ (n * den) * (n * den) <= d
    /\ d < ((n + 1) * den) * ((n + 1) * den)

\* n = round(sqrt(d) / den)
IsRoundedRoot(n, d, den) ==
    /\ (2 * n - 1) * (2 * n - 1) * den * den <= 4 * d
    /\ 4 * d < (2 * n + 1) * (2 * n + 1) * den * den

WidthSq == Max(SqDist(rect[3], rect[4]), SqDist(rect[2], rect[1]))

HeightSq == Max(SqDist(rect[2], rect[3]), SqDist(rect[1], rect[4]))

\* four_point_transform has computed maxWidth and maxHeight
Sized == rect # NoPoints /\ pc # "fpt_size"

DegenerateCorners ==
    \/ maxWidth = 0
    \/ maxHeight = 0
    \/ ~Invertible(rect, maxWidth, maxHeight)

\* every pixel within the 11-pixel window around k is black
BlackWindow(row, k) ==
    \A d \in (-Half)..Half : row[Clamp(k + d, Len(row))] = 0

\* ---- C1
\* C1 (as claimed): when none of the at most 5 largest contours simplifies
\* to 4 vertices, the scan ends without an exception, without an image, and
\* the caller carries on.
C1_NoQuadEndsInCleanFailure ==
    (edged # NoImage /\ ScanEnded /\ TopQuads = {})
        => (exc = "None" /\ pc # "crashed" /\ T = NoImage)

\* ---- C2
\* C2: once the loop is left, screenCnt is the simplification of the
\* contour of lowest rank among the 5 largest that simplify to 4 vertices,
\* the loop has taken exactly that many candidates, and with no such contour
\* nothing is selected.
C2_FirstQuadInRankOrder ==
    LoopLeft =>
        IF TopQuads = {}
        THEN /\ screenCnt = NoPoints
             /\ i = (IF Len(found) < TopN THEN Len(found) ELSE TopN)
        ELSE \E k \in TopQuads :
                /\ \A j \in TopQuads : Rank(k) <= Rank(j)
                /\ screenCnt = found[k].approx
                /\ i = Rank(k)

\* C2 witness: the largest contour is no quadrilateral, the second largest
\* is selected, and it was not the second one found.
C2_Witness ==
    /\ pc = "after_loop"
    /\ i = 2
    /\ Len(cnts[1].approx) # QuadVertices
    /\ screenCnt = cnts[2].approx
    /\ Len(found) >= 3
    /\ found[3] = cnts[2]
    /\ found[3].area > found[1].area

C4_TopRightHasMinXminusY ==
    rect # NoPoints =>
        /\ \A k \in DOMAIN pts : XminusY(rect[2]) <= XminusY(pts[k])
        /\ \A k \in DOMAIN pts : XminusY(rect[4]) >= XminusY(pts[k])
        /\ XminusY(rect[2]) <= XminusY(rect[4])

\* C4 (amended): index 1 of the output holds an input point of maximum
\* x - y (minimum y - x), index 3 one of minimum x - y (maximum y - x), so
\* tr.x - tr.y >= bl.x - bl.y.
C4_TopRightHasMaxXminusY ==
    rect # NoPoints =>
        /\ rect[2] \in Range(pts)
        /\ rect[4] \in Range(pts)
        /\ \A k \in DOMAIN pts : XminusY(rect[2]) >= XminusY(pts[k])
        /\ \A k \in DOMAIN pts : XminusY(rect[4]) <= XminusY(pts[k])
        /\ XminusY(rect[2]) >= XminusY(rect[4])

\* C4 witness: top-right and bottom-left differ in x - y.
C4_Witness ==
    /\ rect # NoPoints
    /\ XminusY(rect[2]) > XminusY(rect[4])
    /\ rect[2] # pts[1]

\* ---- C5
\* C5: index 0 of the output of order_points is an input point of minimal
\* x + y and index 2 one of maximal x + y, ties included.
C5_SumExtremesAtZeroAndTwo ==
    rect # NoPoints =>
        /\ rect[1] \in Range(pts)
        /\ rect[3] \in Range(pts)
        /\ \A k \in DOMAIN pts : XplusY(rect[1]) <= XplusY(pts[k])
        /\ \A k \in DOMAIN pts : XplusY(rect[3]) >= XplusY(pts[k])

\* C5 witness: two different points tie for the minimal x + y, and the
\* minimum is not the first point.
C5_Witness ==
    /\ rect # NoPoints
    /\ \E j, k \in DOMAIN pts :
          /\ pts[j] # pts[k]
          /\ XplusY(pts[j]) = XplusY(pts[k])
          /\ XplusY(pts[j]) = XplusY(rect[1])
    /\ XplusY(pts[1]) > XplusY(rect[1])
    /\ XplusY(rect[3]) > XplusY(rect[1])

\* ---- C6
\* C6 (as claimed): with degenerate ordered corners (maxWidth or maxHeight
\* zero, or a homography that cannot be inverted) the scan reports failure:
\* no exception, no image returned.
C6_DegenerateCornersReported ==
    (edged # NoImage /\ ScanEnded /\ Sized /\ DegenerateCorners)
        => (pc # "crashed" /\ ret = NoneRet)

\* ---- C7
\* C7 (as claimed): the working copy is 500 high, round(W / ratio) wide and
\* at least 1 pixel wide, for every W x H input.
C7_WidthRoundedAndValid ==
    pc \notin {"main", "resize"} =>
        /\ image.data = "resized"
        /\ image.h = TargetHeight
        /\ (2 * image.w - 1) * disk.h <= 2 * TargetHeight * disk.w
        /\ 2 * TargetHeight * disk.w < (2 * image.w + 1) * disk.h
        /\ image.w >= 1

\* C7 (amended): the working copy is 500 high and int(W / ratio) wide, the
\* quotient truncated; that width is at least 1 when 500 * W >= H, and
\* otherwise it is 0 and cv2.resize fails without a working copy.
C7_WidthTruncated ==
    pc \notin {"main", "resize"} =>
        IF TargetHeight * disk.w >= disk.h
        THEN /\ image.data = "resized"
             /\ image.h = TargetHeight
             /\ image.w * disk.h <= TargetHeight * disk.w
             /\ TargetHeight * disk.w < (image.w + 1) * disk.h
             /\ image.w >= 1
        ELSE /\ pc = "crashed"
             /\ exc = "cv2.error"
             /\ image = disk

\* C7 witness: a working copy whose width was truncated from a fraction
\* above one half.
C7_Witness ==
    /\ pc = "edges"
    /\ image.h = TargetHeight
    /\ 2 * TargetHeight * disk.w > (2 * image.w + 1) * disk.h

\* ---- C8
\* C8 (as claimed): binarizing the binarizer's own output changes no pixel.
C8_RebinarizeIsNoOp ==
    pc = "bin_twice" => bin2 = bin1

\* C8 (amended): binarizing the binarizer's own output leaves every white
\* pixel white, and turns white every black pixel whose window is black
\* throughout.
C8_WhiteStaysBlackRegionFlips ==
    pc = "bin_twice" =>
        /\ \A k \in DOMAIN bin1 : bin1[k] = MaxVal => bin2[k] = MaxVal
        /\ \A k \in DOMAIN bin1 : BlackWindow(bin1, k) => bin2[k] = MaxVal

\* C8 witness: an output with white and black pixels, one black pixel of
\* which turns white and another stays black.
C8_Witness ==
    /\ pc = "bin_twice"
    /\ \E j, k, l \in DOMAIN bin1 :
          /\ bin1[j] = MaxVal /\ bin2[j] = MaxVal
          /\ bin1[k] = 0 /\ bin2[k] = MaxVal
          /\ bin1[l] = 0 /\ bin2[l] = 0

\* ---- C9
\* C9 (as claimed): the rectified image is max(round(|br - bl|),
\* round(|tr - tl|)) wide and max(round(|tr - br|), round(|tl - bl|)) high
\* (stated for ordered corners that form a convex quadrilateral).
C9_SizeFromRoundedDistances ==
    (Sized /\ ConvexQuad(rect)) =>
        /\ IsRoundedRoot(maxWidth, WidthSq, ratio.den)
        /\ IsRoundedRoot(maxHeight, HeightSq, ratio.den)
        /\ warped # NoImage => (warped.w = maxWidth /\ warped.h = maxHeight)

\* C9 (amended): four_point_transform asks the warp for a destination
\* max(int(|br - bl|), int(|tr - tl|)) wide and max(int(|tr - br|),
\* int(|tl - bl|)) high, the distances truncated, and a destination of at
\* least 1 x 1 is the size of the rectified image.
C9_SizeFromTruncatedDistances ==
    Sized =>
        /\ IsTruncatedRoot(maxWidth, WidthSq, ratio.den)
        /\ IsTruncatedRoot(maxHeight, HeightSq, ratio.den)
        /\ (warped # NoImage /\ maxWidth >= 1 /\ maxHeight >= 1)
              => (warped.w = maxWidth /\ warped.h = maxHeight)

\* C9 witness: a rectified image whose width was truncated from a distance
\* that rounds up.
C9_Witness ==
    /\ pc = "threshold"
    /\ warped.w = maxWidth
    /\ warped.h = maxHeight
    /\ maxWidth >= 2
    /\ ~IsRoundedRoot(maxWidth, WidthSq, ratio.den)

\* ---- C10
\* C10: the corners handed to order_points are the selected vertices times
\* H / 500, they lie inside the W x H original, orig is still the image that
\* was read, and the warp sampled that image.
C10_CornersScaledWarpReadsOriginal ==
    (edged # NoImage /\ pts # NoPoints) =>
        /\ \A k \in DOMAIN pts :
              /\ pts[k][1] * TargetHeight = screenCnt[k][1] * disk.h * ratio.den
              /\ pts[k][2] * TargetHeight = screenCnt[k][2] * disk.h * ratio.den
              /\ 0 <= pts[k][1] /\ pts[k][1] < disk.w * ratio.den
              /\ 0 <= pts[k][2] /\ pts[k][2] < disk.h * ratio.den
        /\ orig = disk
        /\ warped # NoImage =>
              (warped.sw = disk.w /\ warped.sh = disk.h /\ warped.sdata = "raw")

\* C10 witness: a scan that succeeded on an image that was resized, with a
\* page reaching the last row and column of the working copy.
C10_Witness ==
    /\ pc = "done"
    /\ warped.data = "warp"
    /\ image.w # disk.w
    /\ \E k \in DOMAIN screenCnt :
          screenCnt[k] = <<image.w - 1, TargetHeight - 1>>
    /\ pts # screenCnt

====
